---------------------------- MODULE Spec2Model ----------------------------
(***************************************************************************)
(* A model of the named-dimension operations of namedtensor/torch_base.py  *)
(* (class NTorch): dot, stack, cat, gather, multi_index_select, scatter_.  *)
(*                                                                         *)
(* A NamedTensor is modelled by its schema (the tuple _schema._names) and  *)
(* the identity of the raw buffer it refers to.  The raw engine (torch,    *)
(* opt_einsum) is outside the repository: a call of one of its positional  *)
(* primitives is recorded in the variable prims, in call order, together   *)
(* with the positional arguments the layer computed for it, and the rank   *)
(* of the raw tensor it returns is the one the primitive's documentation   *)
(* gives.  Sizes are taken to agree and index values to be in range, so a  *)
(* primitive that is reached succeeds, with one exception: an in-place     *)
(* scatter whose operands overlap in memory.                               *)
(*                                                                         *)
(* NamedTensor's constructor, _Schema.get, _force_order and _new live in    *)
(* namedtensor/torch_helpers.py and namedtensor/schema.py, which are not    *)
(* among the sources; they are modelled from the specification.            *)
(***************************************************************************)
EXTENDS Integers, Sequences, FiniteSets, TLC

\* Bounds of the model.
MaxRank == 2
MaxOperands == 2
MaxDims == 2
MaxISize == 2

Names == {"a", "b", "c"}

Range(s) == {s[i] : i \in 1..Len(s)}

NoDup(s) == \A i, j \in 1..Len(s) : s[i] = s[j] => i = j

SeqsUpTo(S, n) == UNION {[1..k -> S] : k \in 0..n}

\* The schemas a constructed NamedTensor can carry.
Schemas == {s \in SeqsUpTo(Names, MaxRank) : NoDup(s)}

\* Name tuples a caller can pass (contract_names, dims): repeats allowed.
NameTuples == SeqsUpTo(Names, MaxDims)

\* Raw buffers.
Bufs == 1..(MaxOperands + 1)

NT(names, buf) == [names |-> names, buf |-> buf]

rank(t) == Len(t.names)

\* Operand lists of n tensors, each on a buffer of its own.
OperandLists(lo) ==
  UNION {{[i \in 1..n |-> NT(f[i], i)] : f \in [1..n -> Schemas]} : n \in lo..MaxOperands}

----------------------------------------------------------------------------
\* Outcomes of a call.

Err(kind, name) == [kind |-> kind, name |-> name]
NoErr == Err("none", "")

NoRet == [kind |-> "none", names |-> <<>>, rank |-> 0]
NoneRet == [kind |-> "None", names |-> <<>>, rank |-> 0]
TensorRet(names, r) == [kind |-> "tensor", names |-> names, rank |-> r]

\* One call of a positional primitive: its name, its positional argument
\* (a dim, a permutation, an output index list) and, for the contraction,
\* the operands' index lists.
Prim(p, arg, groups) == [prim |-> p, arg |-> arg, groups |-> groups]

Outcome(err, ret, ps) == [err |-> err, ret |-> ret, prims |-> ps]

Raise(kind, name, ps) == Outcome(Err(kind, name), NoRet, ps)

----------------------------------------------------------------------------
\* The helpers of torch_helpers.py / schema.py.

\* Python's list.index / the schema's axis lookup: 0-based first position.
Index0(s, x) == (CHOOSE i \in 1..Len(s) : s[i] = x /\ \A j \in 1..(i - 1) : s[j] # x) - 1

Construct_NoDupCheck(rawRank, names, ps) ==
  IF Len(names) # rawRank THEN Raise("RankMismatch", "", ps)
  ELSE Outcome(NoErr, TensorRet(names, rawRank), ps)

\* NamedTensor(raw, names): rejects repeated names and a name count that is
\* not the raw tensor's rank.
Construct(rawRank, names, ps) ==
  IF ~NoDup(names) THEN Raise("DuplicateName", "", ps)
  ELSE IF Len(names) # rawRank THEN Raise("RankMismatch", "", ps)
  ELSE Outcome(NoErr, TensorRet(names, rawRank), ps)

\* _schema.get(name) succeeds iff the name is in the schema.
HasDim(names, name) == name \in Range(names)

\* _force_order(target) is accepted iff target is a permutation of the
\* tensor's names.
IsPermutationOf(target, names) ==
  /\ Len(target) = Len(names)
  /\ Range(target) = Range(names)
  /\ NoDup(target)

\* The permutation _force_order asks the engine for.
OrderPerm(names, target) == [i \in 1..Len(target) |-> Index0(names, target[i])]

----------------------------------------------------------------------------
VARIABLES
  pc,          \* "idle", "called", "dot_loop", "done"
  op,          \* the operation called
  args,        \* its arguments
  err,         \* the error the call raised, or NoErr
  ret,         \* what the call returned
  prims,       \* the positional primitives invoked in this call, in order
  heap,        \* contents of the raw buffers
  ids,         \* dot: name -> integer id
  seen_names,  \* dot: names in first-seen order
  dargs,       \* dot: the operands' index lists built so far
  group,       \* dot: the index list of the operand being walked
  ti,          \* dot: the operand being walked (1-based)
  ni           \* dot: the next name of that operand (1-based)

vars == <<pc, op, args, err, ret, prims, heap, ids, seen_names, dargs, group, ti, ni>>

dotvars == <<ids, seen_names, dargs, group, ti, ni>>

EmptyIds == [n \in {} |-> 0]

InitHeap == [b \in Bufs |-> "orig"]

Args(tensors, names, name, index_dim, isize, asserts, overlap_check) ==
  [tensors |-> tensors, names |-> names, name |-> name, index_dim |-> index_dim,
   isize |-> isize, asserts |-> asserts, overlap_check |-> overlap_check]

NoArgs == Args(<<>>, <<>>, "", "", 0, TRUE, TRUE)

Init ==
  /\ pc = "idle"
  /\ op = "none"
  /\ args = NoArgs
  /\ err = NoErr
  /\ ret = NoRet
  /\ prims = <<>>
  /\ heap = InitHeap
  /\ ids = EmptyIds
  /\ seen_names = <<>>
  /\ dargs = <<>>
  /\ group = <<>>
  /\ ti = 0
  /\ ni = 0

\* A caller invokes operation o with arguments a.
Invoke(o, a) ==
  /\ pc = "idle"
  /\ pc' = "called"
  /\ op' = o
  /\ args' = a
  /\ UNCHANGED <<err, ret, prims, heap, dotvars>>

\* The handler ends with outcome out.
Finish(out) ==
  /\ pc' = "done"
  /\ err' = out.err
  /\ ret' = out.ret
  /\ prims' = out.prims
  /\ UNCHANGED <<op, args>>

----------------------------------------------------------------------------
\* stack(tensors, name)

StackMatch_BySet(tensors) ==
  \A i \in 2..Len(tensors) : Range(tensors[i].names) = Range(tensors[1].names)

\* the loop of stack: every later operand has the first one's name tuple
StackMatch(tensors) ==
  \A i \in 2..Len(tensors) : tensors[i].names = tensors[1].names

stack(tensors, name) ==
  IF Len(tensors) = 0 THEN Raise("IndexError", "", <<>>)
  ELSE IF ~StackMatch(tensors) THEN Raise("SchemaMatch", "", <<>>)
  ELSE LET old_names == <<name>> \o tensors[1].names
           ps == <<Prim("stack", <<0>>, <<>>)>>
       IN  Construct(rank(tensors[1]) + 1, old_names, ps)

StackCall ==
  /\ pc = "idle"
  /\ \E ts \in OperandLists(0), name \in Names :
      Invoke("stack", Args(ts, <<>>, name, "", 0, TRUE, TRUE))

StackRun ==
  /\ pc = "called"
  /\ op = "stack"
  /\ Finish(stack(args.tensors, args.name))
  /\ UNCHANGED <<heap, dotvars>>

----------------------------------------------------------------------------
\* cat(tensors, dim)

\* tensors[0]._new(raw): a NamedTensor over raw with the receiver's schema.
New(t, rawRank, ps) == Construct(rawRank, t.names, ps)

CatMatch_BySet(tensors) ==
  \A i \in 2..Len(tensors) : Range(tensors[i].names) = Range(tensors[1].names)

\* the assertion of cat: every later operand has the first one's name tuple
CatMatch(tensors) ==
  \A i \in 2..Len(tensors) : tensors[i].names = tensors[1].names

\* asserts: whether the interpreter runs assert statements (python -O drops
\* them).  The engine concatenates every operand along the one axis given.
cat(tensors, dim, asserts) ==
  IF Len(tensors) = 0 THEN Raise("IndexError", "", <<>>)
  ELSE IF ~HasDim(tensors[1].names, dim) THEN Raise("UnknownDimension", dim, <<>>)
  ELSE IF asserts /\ ~CatMatch(tensors) THEN Raise("AssertionError", "", <<>>)
  ELSE LET d == Index0(tensors[1].names, dim)
           ps == <<Prim("cat", <<d>>, <<>>)>>
       IN  IF \E i \in 2..Len(tensors) : rank(tensors[i]) # rank(tensors[1])
           THEN Raise("EngineError", "", ps)
           ELSE New(tensors[1], rank(tensors[1]), ps)

CatCall ==
  /\ pc = "idle"
  /\ \E ts \in OperandLists(0), dim \in Names, asserts \in BOOLEAN :
      Invoke("cat", Args(ts, <<>>, dim, "", 0, asserts, TRUE))

CatRun ==
  /\ pc = "called"
  /\ op = "cat"
  /\ Finish(cat(args.tensors, args.name, args.asserts))
  /\ UNCHANGED <<heap, dotvars>>

----------------------------------------------------------------------------
\* gather(input, dim, index, index_dim)

\* input's names with indim replaced by outdim
IndexOrder(names, indim, outdim) ==
  [i \in 1..Len(names) |-> IF names[i] # indim THEN names[i] ELSE outdim]

\* t._force_order(target) when accepted: one permute of t's raw tensor.
ForcePrims(t, target, ps) ==
  Append(ps, Prim("permute", OrderPerm(t.names, target), <<>>))

gather_ResolveFirst(input, dim, index, index_dim) ==
  LET index_order == IndexOrder(input.names, dim, index_dim)
  IN  IF ~HasDim(input.names, dim) THEN Raise("UnknownDimension", dim, <<>>)
      ELSE IF ~IsPermutationOf(index_order, index.names)
      THEN Raise("SchemaMismatch", "", <<>>)
      ELSE LET ps1 == ForcePrims(index, index_order, <<>>)
               d == Index0(input.names, dim)
               ps2 == Append(ps1, Prim("gather", <<d>>, <<>>))
           IN  Construct(rank(input), index_order, ps2)

gather(input, dim, index, index_dim) ==
  LET index_order == IndexOrder(input.names, dim, index_dim)
  IN  IF ~IsPermutationOf(index_order, index.names)
      THEN Raise("SchemaMismatch", "", <<>>)
      ELSE LET ps1 == ForcePrims(index, index_order, <<>>)
           IN  IF ~HasDim(input.names, dim) THEN Raise("UnknownDimension", dim, ps1)
               ELSE LET d == Index0(input.names, dim)
                        ps2 == Append(ps1, Prim("gather", <<d>>, <<>>))
                    IN  Construct(rank(input), index_order, ps2)

GatherCall ==
  /\ pc = "idle"
  /\ \E s1, s2 \in Schemas, dim, index_dim \in Names :
      Invoke("gather", Args(<<NT(s1, 1), NT(s2, 2)>>, <<>>, dim, index_dim, 0, TRUE, TRUE))

GatherRun ==
  /\ pc = "called"
  /\ op = "gather"
  /\ Finish(gather(args.tensors[1], args.name, args.tensors[2], args.index_dim))
  /\ UNCHANGED <<heap, dotvars>>

----------------------------------------------------------------------------
\* multi_index_select(tensor, dims, indices)

\* the first element of seq that is not in set
FirstMissing_Last(seq, set) ==
  seq[CHOOSE i \in 1..Len(seq) :
        seq[i] \notin set /\ \A j \in (i + 1)..Len(seq) : seq[j] \in set]

FirstMissing(seq, set) ==
  seq[CHOOSE i \in 1..Len(seq) :
        seq[i] \notin set /\ \A j \in 1..(i - 1) : seq[j] \in set]

Positions(n) == [i \in 1..n |-> i - 1]

\* match_dims: the position of each of dims in names, in dims order
MatchDims(names, dims) == [i \in 1..Len(dims) |-> Index0(names, dims[i])]

RemainingDims_Descending(names, match_dims) ==
  LET Rest(i) == i \notin Range(match_dims)
      asc == SelectSeq(Positions(Len(names)), Rest)
  IN  [i \in 1..Len(asc) |-> asc[Len(asc) + 1 - i]]

\* remaining_dims: the positions not in match_dims, ascending
RemainingDims(names, match_dims) ==
  LET Rest(i) == i \notin Range(match_dims)
  IN  SelectSeq(Positions(Len(names)), Rest)

\* remaining_names: the names at remaining_dims
RemainingNames(names, match_dims) ==
  LET rd == RemainingDims(names, match_dims)
  IN  [i \in 1..Len(rd) |-> names[rd[i] + 1]]

\* The rank of torch.cat([values[tuple(idx)].unsqueeze(0) for idx in ...]):
\* each row of indices gives isize index tensors of rank (indices' rank - 2),
\* which replace the isize leading axes of values.
SelectedRank(tensorRank, indicesRank, isize) ==
  1 + (tensorRank - isize) + (IF isize > 0 THEN indicesRank - 2 ELSE 0)

MisValidate_SkipUnique(tensor, dims, indices, isize) ==
  IF rank(indices) < 2 THEN Err("IndexError", "")
  ELSE IF Len(dims) # isize THEN Err("SizeMismatch", "")
  ELSE IF rank(tensor) < Len(dims) THEN Err("RankInsufficient", "")
  ELSE IF \E i \in 1..Len(dims) : dims[i] \notin Range(tensor.names)
  THEN Err("UnknownDimension", FirstMissing(dims, Range(tensor.names)))
  ELSE IF Cardinality(Range(dims)) < Len(dims) THEN Err("DuplicateDims", "")
  ELSE NoErr

\* the checks of multi_index_select, in order
MisValidate(tensor, dims, indices, isize) ==
  IF rank(indices) < 2 THEN Err("IndexError", "")
  ELSE IF Len(dims) # isize THEN Err("SizeMismatch", "")
  ELSE IF rank(tensor) < Len(dims) THEN Err("RankInsufficient", "")
  ELSE IF Cardinality(Range(dims)) < Len(dims) THEN Err("DuplicateDims", "")
  ELSE IF \E i \in 1..Len(dims) : dims[i] \notin Range(tensor.names)
  THEN Err("UnknownDimension", FirstMissing(dims, Range(tensor.names)))
  ELSE NoErr

\* isize is indices.shape[index_dim], the size of indices' second axis.
multi_index_select(tensor, dims, indices, isize) ==
  LET e == MisValidate(tensor, dims, indices, isize)
  IN  IF e # NoErr THEN Outcome(e, NoRet, <<>>)
      ELSE LET names == tensor.names
               match_dims == MatchDims(names, dims)
               permute_idx == match_dims \o RemainingDims(names, match_dims)
               ps == <<Prim("permute", permute_idx, <<>>),
                       Prim("index", <<>>, <<>>),
                       Prim("cat", <<0>>, <<>>)>>
               new_names == <<indices.names[1]>> \o RemainingNames(names, match_dims)
           IN  Construct(SelectedRank(rank(tensor), rank(indices), isize), new_names, ps)

MisCall ==
  /\ pc = "idle"
  /\ \E s1, s2 \in Schemas, dims \in NameTuples, isize \in 0..MaxISize :
      Invoke("multi_index_select", Args(<<NT(s1, 1), NT(s2, 2)>>, dims, "", "", isize, TRUE, TRUE))

MisRun ==
  /\ pc = "called"
  /\ op = "multi_index_select"
  /\ Finish(multi_index_select(args.tensors[1], args.names, args.tensors[2], args.isize))
  /\ UNCHANGED <<heap, dotvars>>

----------------------------------------------------------------------------
\* scatter_(input, dim, index, src, index_dim)

ScatterOutcome(out, h) ==
  [err |-> out.err, ret |-> out.ret, prims |-> out.prims, heap |-> h]

\* index or src shares input's raw buffer
Overlaps(input, index, src) == index.buf = input.buf \/ src.buf = input.buf

scatter__WriteFirst(input, dim, index, src, index_dim, overlap_check, h) ==
  LET index_order == IndexOrder(input.names, dim, index_dim)
      written == [h EXCEPT ![input.buf] = "scattered"]
  IN  IF ~IsPermutationOf(index_order, index.names)
      THEN ScatterOutcome(Raise("SchemaMismatch", "", <<>>), h)
      ELSE LET ps1 == ForcePrims(index, index_order, <<>>)
           IN  IF ~IsPermutationOf(index_order, src.names)
               THEN ScatterOutcome(Raise("SchemaMismatch", "", ps1), written)
               ELSE LET ps2 == ForcePrims(src, index_order, ps1)
                    IN  IF ~HasDim(input.names, dim)
                        THEN ScatterOutcome(Raise("UnknownDimension", dim, ps2), written)
                        ELSE ScatterOutcome(
                               Outcome(NoErr, NoneRet,
                                       Append(ps2, Prim("scatter_", <<Index0(input.names, dim)>>, <<>>))),
                               written)

\* The engine's in-place scatter on operands that overlap in memory is
\* refused by an engine that checks for overlap (overlap_check) and is
\* carried out by one that does not.
scatter_(input, dim, index, src, index_dim, overlap_check, h) ==
  LET index_order == IndexOrder(input.names, dim, index_dim)
  IN  IF ~IsPermutationOf(index_order, index.names)
      THEN ScatterOutcome(Raise("SchemaMismatch", "", <<>>), h)
      ELSE LET ps1 == ForcePrims(index, index_order, <<>>)
           IN  IF ~IsPermutationOf(index_order, src.names)
               THEN ScatterOutcome(Raise("SchemaMismatch", "", ps1), h)
               ELSE LET ps2 == ForcePrims(src, index_order, ps1)
                    IN  IF ~HasDim(input.names, dim)
                        THEN ScatterOutcome(Raise("UnknownDimension", dim, ps2), h)
                        ELSE LET d == Index0(input.names, dim)
                                 ps3 == Append(ps2, Prim("scatter_", <<d>>, <<>>))
                             IN  IF Overlaps(input, index, src) /\ overlap_check
                                 THEN ScatterOutcome(Raise("EngineError", "", ps3), h)
                                 ELSE ScatterOutcome(
                                        Outcome(NoErr, NoneRet, ps3),
                                        [h EXCEPT ![input.buf] = "scattered"])

\* input is on buffer 3; index and src are on buffers of their own (1, 2) or
\* are views of input's buffer.
ScatterCall ==
  /\ pc = "idle"
  /\ \E s1, s2, s3 \in Schemas, dim, index_dim \in Names, bi \in {1, 3}, bs \in {2, 3} :
      \E oc \in (IF bi = 3 \/ bs = 3 THEN BOOLEAN ELSE {TRUE}) :
        Invoke("scatter_",
               Args(<<NT(s1, 3), NT(s2, bi), NT(s3, bs)>>, <<>>, dim, index_dim, 0, TRUE, oc))

ScatterRun ==
  /\ pc = "called"
  /\ op = "scatter_"
  /\ LET out == scatter_(args.tensors[1], args.name, args.tensors[2], args.tensors[3],
                         args.index_dim, args.overlap_check, heap)
     IN  Finish(out) /\ heap' = out.heap
  /\ UNCHANGED dotvars

----------------------------------------------------------------------------
\* dot(dims, *tensors)

DotAssign_ByGroup(m, name, grp) ==
  IF name \in DOMAIN m THEN m
  ELSE [n \in DOMAIN m \cup {name} |-> IF n = name THEN Len(grp) ELSE m[n]]

\* if name not in ids: ids[name] = len(ids)
DotAssign(m, name, grp) ==
  IF name \in DOMAIN m THEN m
  ELSE [n \in DOMAIN m \cup {name} |-> IF n = name THEN Cardinality(DOMAIN m) ELSE m[n]]

DotKeep_Reversed(seen, names) ==
  LET Kept(n) == n \notin Range(names)
      k == SelectSeq(seen, Kept)
  IN  [i \in 1..Len(k) |-> k[Len(k) + 1 - i]]

\* keep = [n for n in seen_names if n not in names]
DotKeep(seen, names) ==
  LET Kept(n) == n \notin Range(names)
  IN  SelectSeq(seen, Kept)

\* The end of dot: the check of the contraction names, the output index
\* list, the contraction and the wrapping of its result.
DotResult(m, seen, groups, names) ==
  LET keep == DotKeep(seen, names)
  IN  IF \E i \in 1..Len(names) : names[i] \notin Range(seen)
      THEN Raise("NoDimension", FirstMissing(names, Range(seen)), <<>>)
      ELSE LET out == [i \in 1..Len(keep) |-> m[keep[i]]]
               ps == <<Prim("contract", out, groups)>>
           IN  Construct(Len(out), keep, ps)

DotCall ==
  /\ pc = "idle"
  /\ \E ts \in OperandLists(1), names \in NameTuples :
      Invoke("dot", Args(ts, names, "", "", 0, TRUE, TRUE))

\* names, args, ids, seen_names are set up and the first operand is entered
DotBegin ==
  /\ pc = "called"
  /\ op = "dot"
  /\ pc' = "dot_loop"
  /\ ids' = EmptyIds
  /\ seen_names' = <<>>
  /\ dargs' = <<>>
  /\ group' = <<>>
  /\ ti' = 1
  /\ ni' = 1
  /\ UNCHANGED <<op, args, err, ret, prims, heap>>

\* one pass of the inner loop, over the next name of operand ti
DotName ==
  /\ pc = "dot_loop"
  /\ ti <= Len(args.tensors)
  /\ ni <= rank(args.tensors[ti])
  /\ LET name == args.tensors[ti].names[ni]
     IN  /\ ids' = DotAssign(ids, name, group)
         /\ seen_names' = IF name \in DOMAIN ids THEN seen_names
                          ELSE Append(seen_names, name)
         /\ group' = Append(group, ids'[name])
  /\ ni' = ni + 1
  /\ UNCHANGED <<pc, op, args, err, ret, prims, heap, dargs, ti>>

\* operand ti is walked: its index list joins args, the next operand is entered
DotEndOperand ==
  /\ pc = "dot_loop"
  /\ ti <= Len(args.tensors)
  /\ ni > rank(args.tensors[ti])
  /\ dargs' = Append(dargs, group)
  /\ group' = <<>>
  /\ ti' = ti + 1
  /\ ni' = 1
  /\ UNCHANGED <<pc, op, args, err, ret, prims, heap, ids, seen_names>>

DotFinish ==
  /\ pc = "dot_loop"
  /\ ti > Len(args.tensors)
  /\ Finish(DotResult(ids, seen_names, dargs, args.names))
  /\ UNCHANGED <<heap, dotvars>>

----------------------------------------------------------------------------
\* The caller takes the outcome; the next call starts afresh.
Return ==
  /\ pc = "done"
  /\ pc' = "idle"
  /\ op' = "none"
  /\ args' = NoArgs
  /\ err' = NoErr
  /\ ret' = NoRet
  /\ prims' = <<>>
  /\ heap' = InitHeap
  /\ ids' = EmptyIds
  /\ seen_names' = <<>>
  /\ dargs' = <<>>
  /\ group' = <<>>
  /\ ti' = 0
  /\ ni' = 0

Next ==
  \/ GatherCall
  \/ GatherRun
  \/ StackCall
  \/ StackRun
  \/ CatCall
  \/ CatRun
  \/ MisCall
  \/ MisRun
  \/ ScatterCall
  \/ ScatterRun
  \/ DotCall
  \/ DotBegin
  \/ DotName
  \/ DotEndOperand
  \/ DotFinish
  \/ Return

Spec == Init /\ [][Next]_vars

----------------------------------------------------------------------------
\* Reference definitions the properties are stated with.

Done(o) == pc = "done" /\ op = o

\* the names of all operands, operand after operand, each in schema order
RECURSIVE AllNames(_)
AllNames(tensors) ==
  IF tensors = <<>> THEN <<>>
  ELSE AllNames(SubSeq(tensors, 1, Len(tensors) - 1)) \o tensors[Len(tensors)].names

\* s with every element kept at its first occurrence only
RECURSIVE FirstOccurrences(_)
FirstOccurrences(s) ==
  IF s = <<>> THEN <<>>
  ELSE LET r == FirstOccurrences(SubSeq(s, 1, Len(s) - 1))
       IN  IF s[Len(s)] \in Range(r) THEN r ELSE Append(r, s[Len(s)])

\* s without the elements of set, order kept
Without(s, set) ==
  LET Kept(x) == x \notin set
  IN  SelectSeq(s, Kept)

PrimNames(ps) == [i \in 1..Len(ps) |-> ps[i].prim]

----------------------------------------------------------------------------
\* C1: when every contraction name occurs in some operand, dot returns a
\* tensor whose names are the distinct names of all operands that are not
\* contraction names, each once, in first-occurrence order (operands in
\* argument order, names in schema order).  The names are a function of the
\* operands and contract_names alone, so a repeated call gives the same
\* order; with no contraction name every distinct name is retained.
C1_DotOutputNames ==
  (Done("dot") /\ Range(args.names) \subseteq Range(AllNames(args.tensors))) =>
    /\ err = NoErr
    /\ ret.kind = "tensor"
    /\ ret.names = Without(FirstOccurrences(AllNames(args.tensors)), Range(args.names))
    /\ args.names = <<>> => Range(ret.names) = Range(AllNames(args.tensors))

\* a matrix product: the shared name is contracted, one name of each operand
\* is kept
C1_Witness ==
  /\ Done("dot")
  /\ Len(args.tensors) = 2
  /\ args.names # <<>>
  /\ ret.kind = "tensor"
  /\ Len(ret.names) = 2
  /\ ret.names[1] \in Range(args.tensors[1].names)
  /\ ret.names[2] \notin Range(args.tensors[1].names)

\* C2: if a contraction name occurs in no operand, dot fails with the error
\* naming the first such name in contract_names order and the contraction
\* backend is not invoked; if every contraction name occurs, dot does not
\* raise that error.
C2_DotUnknownContraction ==
  Done("dot") =>
    LET seen == Range(AllNames(args.tensors))
        names == args.names
    IN  IF \E i \in 1..Len(names) : names[i] \notin seen
        THEN /\ err.kind = "NoDimension"
             /\ \E i \in 1..Len(names) :
                  /\ names[i] \notin seen
                  /\ \A j \in 1..(i - 1) : names[j] \in seen
                  /\ err.name = names[i]
             /\ \A i \in 1..Len(prims) : prims[i].prim # "contract"
             /\ ret = NoRet
        ELSE err.kind # "NoDimension"

\* two different names are missing; the first one is reported
C2_Witness ==
  /\ Done("dot")
  /\ Len(args.names) = 2
  /\ args.names[1] # args.names[2]
  /\ \A i \in 1..2 : args.names[i] \notin Range(AllNames(args.tensors))
  /\ err = Err("NoDimension", args.names[1])

\* C3: stack fails with the schema-match error, before the positional stack,
\* whenever an operand's name sequence differs from the first operand's, a
\* reordering of the same names included; when all sequences are identical a
\* returned tensor has the names: name, then the shared sequence unchanged
\* (and one is returned unless name already is in the shared sequence, which
\* the constructor rejects).
C3_StackSchemaMatch ==
  (Done("stack") /\ Len(args.tensors) >= 1) =>
    LET shared == args.tensors[1].names
    IN  IF \E i \in 1..Len(args.tensors) : args.tensors[i].names # shared
        THEN /\ err.kind = "SchemaMatch"
             /\ prims = <<>>
             /\ ret = NoRet
        ELSE /\ PrimNames(prims) = <<"stack">>
             /\ ret.kind = "tensor" => ret.names = <<args.name>> \o shared
             /\ ret.kind = "tensor" <=> args.name \notin Range(shared)
             /\ ret.kind # "tensor" => err.kind = "DuplicateName"

\* two operands with the same names in another order are rejected
C3_Witness ==
  /\ Done("stack")
  /\ Len(args.tensors) = 2
  /\ Range(args.tensors[1].names) = Range(args.tensors[2].names)
  /\ args.tensors[1].names # args.tensors[2].names
  /\ err.kind = "SchemaMatch"

\* C4, as claimed: for operands with the same set of names, in whatever
\* orders, cat succeeds and concatenates each operand along the axis its own
\* schema gives dim (stated of an interpreter that runs assertions).
C4_CatAnyOrder ==
  ( /\ Done("cat")
    /\ args.asserts
    /\ Len(args.tensors) >= 1
    /\ \A i \in 1..Len(args.tensors) :
         Range(args.tensors[i].names) = Range(args.tensors[1].names)
    /\ args.name \in Range(args.tensors[1].names) ) =>
    /\ err = NoErr
    /\ ret.kind = "tensor"
    /\ PrimNames(prims) = <<"cat">>
    /\ \A i \in 1..Len(args.tensors) :
         prims[1].arg = <<Index0(args.tensors[i].names, args.name)>>

\* C4, amended: with assertions on, cat fails before the positional
\* concatenate whenever an operand's name sequence differs from the first
\* operand's, a reordering included (unknown-dimension error if dim is not in
\* the first operand's schema, else the assertion); when all sequences are
\* identical and hold dim, cat succeeds, concatenates along the axis the
\* shared schema gives dim and returns the shared names.  The axis is always
\* the one the first operand's schema gives dim.
C4_CatSameOrderOnly ==
  (Done("cat") /\ Len(args.tensors) >= 1) =>
    LET shared == args.tensors[1].names
        differ == \E i \in 1..Len(args.tensors) : args.tensors[i].names # shared
    IN  /\ (differ /\ args.asserts) =>
             /\ err.kind = (IF args.name \in Range(shared) THEN "AssertionError"
                            ELSE "UnknownDimension")
             /\ prims = <<>>
             /\ ret = NoRet
        /\ (~differ /\ args.name \in Range(shared)) =>
             /\ err = NoErr
             /\ ret = TensorRet(shared, Len(shared))
             /\ PrimNames(prims) = <<"cat">>
        /\ \A i \in 1..Len(prims) :
             prims[i].prim = "cat" => prims[i].arg = <<Index0(shared, args.name)>>

\* two operands with the same names in another order fail the assertion
C4_Witness ==
  /\ Done("cat")
  /\ args.asserts
  /\ Len(args.tensors) = 2
  /\ Range(args.tensors[1].names) = Range(args.tensors[2].names)
  /\ args.tensors[1].names # args.tensors[2].names
  /\ args.name \in Range(args.tensors[1].names)
  /\ err.kind = "AssertionError"

\* C5, as claimed: dims with a repeated name always gives the duplicate-dims
\* error, whatever the size of indices' second axis and the tensor's rank.
C5_DuplicateDimsAlwaysReported ==
  (Done("multi_index_select") /\ rank(args.tensors[2]) >= 2 /\ ~NoDup(args.names)) =>
    err.kind = "DuplicateDims"

\* C5, amended: dims with a repeated name never gives a result and no
\* primitive is invoked; the error is the first failing check in the order:
\* indices has fewer than two axes, len(dims) is not the size of indices'
\* second axis, len(dims) exceeds the tensor's rank, dims repeats a name.
C5_DuplicateDimsNeverSelected ==
  (Done("multi_index_select") /\ ~NoDup(args.names)) =>
    /\ ret = NoRet
    /\ prims = <<>>
    /\ err.kind =
         (IF rank(args.tensors[2]) < 2 THEN "IndexError"
          ELSE IF Len(args.names) # args.isize THEN "SizeMismatch"
          ELSE IF rank(args.tensors[1]) < Len(args.names) THEN "RankInsufficient"
          ELSE "DuplicateDims")

\* repeated dims whose count matches indices and fits the rank, naming no
\* axis of the tensor: the duplicate-dims error
C5_Witness ==
  /\ Done("multi_index_select")
  /\ ~NoDup(args.names)
  /\ Range(args.names) \cap Range(args.tensors[1].names) = {}
  /\ err.kind = "DuplicateDims"

\* C6: when the validation of multi_index_select passes, the permutation it
\* applies is a permutation of 0..rank-1 with the positions of dims first, in
\* dims order, and the other positions after them, ascending; a returned
\* tensor has the names: indices' first axis name, then the tensor's names
\* not in dims in their original order.
C6_MisPermutation ==
  ( /\ Done("multi_index_select")
    /\ rank(args.tensors[2]) >= 2
    /\ Len(args.names) = args.isize
    /\ Len(args.names) <= rank(args.tensors[1])
    /\ NoDup(args.names)
    /\ Range(args.names) \subseteq Range(args.tensors[1].names) ) =>
    LET names == args.tensors[1].names
        dims == args.names
        p == prims[1].arg
    IN  /\ prims # <<>>
        /\ prims[1].prim = "permute"
        /\ Len(p) = Len(names)
        /\ Range(p) = 0..(Len(names) - 1)
        /\ \A i \in 1..Len(dims) : names[p[i] + 1] = dims[i]
        /\ \A i, j \in (Len(dims) + 1)..Len(p) : i < j => p[i] < p[j]
        /\ ret.kind = "tensor" =>
             ret.names = <<args.tensors[2].names[1]>> \o Without(names, Range(dims))
        /\ ret.kind = "tensor" \/ err.kind \in {"DuplicateName", "RankMismatch"}

\* a selection along the second axis of a matrix: the permutation swaps the
\* axes and the first axis name survives
C6_Witness ==
  /\ Done("multi_index_select")
  /\ rank(args.tensors[1]) = 2
  /\ args.names = <<args.tensors[1].names[2]>>
  /\ prims # <<>>
  /\ prims[1].arg = <<1, 0>>
  /\ ret.kind = "tensor"
  /\ ret.names = <<args.tensors[2].names[1], args.tensors[1].names[1]>>

\* C7: a NamedTensor returned by dot, stack or multi_index_select has names
\* without repeats, as many as the rank of its raw tensor, whatever the name
\* arguments.
C7_ReturnedSchemaWellFormed ==
  (pc = "done" /\ op \in {"dot", "stack", "multi_index_select"} /\ ret.kind = "tensor") =>
    /\ NoDup(ret.names)
    /\ Len(ret.names) = ret.rank

\* a stack of matrices returns three distinct names
C7_Witness ==
  /\ Done("stack")
  /\ Len(args.tensors) = 2
  /\ ret.kind = "tensor"
  /\ ret.rank = 3
  /\ Cardinality(Range(ret.names)) = 3

\* C8, as claimed: a call of dot, stack, cat, gather or multi_index_select
\* that ends in an error has invoked no positional primitive; in particular
\* gather resolves dim before it permutes index.
C8_ErrorsBeforePrimitives ==
  ( /\ pc = "done"
    /\ op \in {"dot", "stack", "cat", "gather", "multi_index_select"}
    /\ err # NoErr ) => prims = <<>>

\* C8, amended: the checks the operations make themselves (unknown
\* contraction name, differing operand schemas, unknown dim of cat and of
\* multi_index_select, its size, rank and duplicate checks, a missing
\* operand or axis, gather's alignment of index) fail before any positional
\* primitive; gather resolves dim only after it has permuted index, so its
\* unknown-dimension error follows one permute; a result schema rejected at
\* construction and an error of the engine follow the primitive.
C8_ChecksBeforePrimitives ==
  (pc = "done" /\ op \in {"dot", "stack", "cat", "gather", "multi_index_select"}) =>
    /\ err.kind \in {"NoDimension", "SchemaMatch", "AssertionError", "IndexError",
                     "SizeMismatch", "RankInsufficient", "DuplicateDims",
                     "SchemaMismatch"} => prims = <<>>
    /\ (err.kind = "UnknownDimension" /\ op # "gather") => prims = <<>>
    /\ (err.kind = "UnknownDimension" /\ op = "gather") => PrimNames(prims) = <<"permute">>
    /\ err.kind \in {"DuplicateName", "RankMismatch", "EngineError"} => prims # <<>>
    /\ ( /\ op = "gather"
         /\ ~HasDim(args.tensors[1].names, args.name)
         /\ IsPermutationOf(args.tensors[1].names, args.tensors[2].names) )
         => err.kind = "UnknownDimension"

\* gather with a dim that input does not have, index aligned with input: the
\* error comes after index was permuted
C8_Witness ==
  /\ Done("gather")
  /\ rank(args.tensors[1]) = 2
  /\ args.name \notin Range(args.tensors[1].names)
  /\ err = Err("UnknownDimension", args.name)
  /\ PrimNames(prims) = <<"permute">>

\* What C9 says of the call's outcome, with which buffers a successful call
\* may have changed left open.
C9_Outcome(mayChange) ==
  Done("scatter_") =>
    LET input == args.tensors[1]
    IN  /\ err # NoErr => heap = InitHeap /\ ret = NoRet
        /\ err.kind \in {"SchemaMismatch", "UnknownDimension"} =>
             \A i \in 1..Len(prims) : prims[i].prim # "scatter_"
        /\ err = NoErr =>
             /\ PrimNames(prims) = <<"permute", "permute", "scatter_">>
             /\ prims[3].arg = <<Index0(input.names, args.name)>>
             /\ IsPermutationOf(IndexOrder(input.names, args.name, args.index_dim),
                                args.tensors[2].names)
             /\ IsPermutationOf(IndexOrder(input.names, args.name, args.index_dim),
                                args.tensors[3].names)
             /\ ret = NoneRet
             /\ heap[input.buf] = "scattered"
             /\ \A b \in Bufs \ mayChange : heap[b] = InitHeap[b]

\* C9, as claimed: scatter_ makes every check before the in-place scatter;
\* a failed call leaves input's contents unchanged; a successful one changes
\* input's contents only, not those of index and src, and returns nothing.
C9_ScatterChangesInputOnly ==
  C9_Outcome({args.tensors[1].buf} \ {args.tensors[2].buf, args.tensors[3].buf})

\* C9, amended: as claimed, except that a successful call changes the
\* contents of input's raw buffer, so that index or src is unchanged unless
\* it is a view of that buffer; the operands' schemas are not changed.
C9_ScatterChangesInputBuffer ==
  /\ [](C9_Outcome({args.tensors[1].buf}))
  /\ [][(pc = "called" /\ op = "scatter_") => args' = args]_vars

\* a successful scatter into a matrix along a renamed axis, index and src in
\* input's transposed order on buffers of their own
C9_Witness ==
  /\ Done("scatter_")
  /\ err = NoErr
  /\ rank(args.tensors[1]) = 2
  /\ args.name # args.index_dim
  /\ args.tensors[2].buf # args.tensors[1].buf
  /\ args.tensors[3].buf # args.tensors[1].buf
  /\ prims[1].arg = <<1, 0>>
  /\ heap[args.tensors[1].buf] = "scattered"

\* The state of dot's loop: ids maps the names seen so far one-to-one onto
\* 0..k-1, ids[seen_names[i]] = i (0-based); every index list built follows
\* its operand's schema.
C10_LoopState ==
  (op = "dot" /\ pc \in {"dot_loop", "done"}) =>
    /\ DOMAIN ids = Range(seen_names)
    /\ NoDup(seen_names)
    /\ \A i \in 1..Len(seen_names) : ids[seen_names[i]] = i - 1
    /\ (ti = 1 /\ ni = 1) => ids = EmptyIds
    /\ \A i \in 1..Len(dargs) :
         /\ Len(dargs[i]) = rank(args.tensors[i])
         /\ \A j \in 1..Len(dargs[i]) : dargs[i][j] = ids[args.tensors[i].names[j]]
    /\ \A i, k \in 1..Len(dargs) : \A j \in 1..Len(dargs[i]), l \in 1..Len(dargs[k]) :
         dargs[i][j] = dargs[k][l] <=> args.tensors[i].names[j] = args.tensors[k].names[l]
    /\ pc = "dot_loop" => \A j \in 1..Len(group) : group[j] = ids[args.tensors[ti].names[j]]
    /\ (pc = "done" /\ prims # <<>>) =>
         /\ prims[1].groups = dargs
         /\ Len(dargs) = Len(args.tensors)

\* C10: at every step of dot's loop the id map is a bijection between the
\* names seen and 0..k-1 in first-seen order, and no id is reassigned; in the
\* finished program two axes have the same id iff they have the same name,
\* each operand's index list has its rank's length and follows its schema;
\* the map starts empty in every call.
C10_DotIdAssignment ==
  /\ []C10_LoopState
  /\ [][pc = "dot_loop" =>
          \A n \in DOMAIN ids : n \in DOMAIN ids' /\ ids'[n] = ids[n]]_vars

\* the second operand's first name was seen as the second name of the
\* first operand: it gets the id 1 again
C10_Witness ==
  /\ pc = "dot_loop"
  /\ ti = 2
  /\ ni = 2
  /\ Len(seen_names) = 2
  /\ group = <<1>>

=============================================================================
